---- MODULE Spec2Model ----
(***************************************************************************)
(* Model of seal-kit's AES-256-GCM symmetric adapter                       *)
(* (src/src/symmetric/systems/aes_gcm.rs) and of the unified asymmetric    *)
(* round trip exercised by src/src/lib.rs.                                 *)
(*                                                                         *)
(* AesGcmSystem is a unit struct: it keeps no state of its own.  The state *)
(* of the model is what a caller of the adapter holds: the keys obtained,  *)
(* the most recent ciphertext blob, and the most recent call with its      *)
(* result.  Bytes are integers 0..255.  A text is a sequence of base64     *)
(* symbols: 0..63 is the index of a symbol in the standard alphabet,       *)
(* PadChar is '=', BadChar is any character outside the alphabet.          *)
(***************************************************************************)
EXTENDS Integers, Sequences, FiniteSets, TLC

VARIABLES keys, blob, last, keypairs, envelope, alast

vars == <<keys, blob, last, keypairs, envelope, alast>>

symVars == <<keys, blob, last>>

asymVars == <<keypairs, envelope, alast>>

----------------------------------------------------------------------------
(* Program constants and model bounds *)

KEY_SIZE == 32

NONCE_SIZE == 12

\* how many keys a caller holds at once
MaxKeys == 2

\* longest plaintext handed to encrypt
MaxPlainLen == 1

\* longest associated data handed to encrypt / decrypt
MaxAadLen == 1

ByteMod == 256

PadChar == 64

BadChar == 65

----------------------------------------------------------------------------
(* Byte helpers *)

Zeros(n) == [i \in 1..n |-> 0]

\* the bytes OsRng.try_fill_bytes writes into a buffer of n bytes, for one
\* of the outcomes (seed) the generator can produce
RngFill(seed, n) == [i \in 1..n |-> (seed * 85 + i * 7) % ByteMod]

RngSeeds == {0, 3}

\* x ^ 0xff on one byte
FlipByte(b) == 255 - b

TamperAt(raw, pos) == [raw EXCEPT ![pos] = FlipByte(@)]

RECURSIVE SeqsUpTo(_, _)
SeqsUpTo(S, n) ==
    IF n = 0 THEN {<<>>}
    ELSE LET shorter == SeqsUpTo(S, n - 1)
         IN  shorter \cup {Append(s, b) : s \in {t \in shorter : Len(t) = n - 1}, b \in S}

----------------------------------------------------------------------------
(* Option<&[u8]> *)

None == [some |-> FALSE, bytes |-> <<>>]

Some(b) == [some |-> TRUE, bytes |-> b]

\* (mutant) the associated data is dropped on both paths
UnwrapOrDefault_dropped(o) == <<>>

\* additional_data.unwrap_or_default()
UnwrapOrDefault(o) == IF o.some THEN o.bytes ELSE <<>>

----------------------------------------------------------------------------
(* base64::engine::general_purpose::STANDARD *)

\* encode: every group of three bytes becomes four symbols; a last group of
\* one or two bytes is padded with '='
B64Encode(bytes) ==
    LET n == Len(bytes)
        at(i) == IF i <= n THEN bytes[i] ELSE 0
    IN  [j \in 1..(4 * ((n + 2) \div 3)) |->
            LET g == (j - 1) \div 4
                r == (j - 1) % 4
                b1 == at(3 * g + 1)
                b2 == at(3 * g + 2)
                b3 == at(3 * g + 3)
            IN  IF r = 0 THEN b1 \div 4
                ELSE IF r = 1 THEN (b1 % 4) * 16 + b2 \div 16
                ELSE IF r = 2 THEN (IF 3 * g + 2 > n THEN PadChar
                                    ELSE (b2 % 16) * 4 + b3 \div 64)
                ELSE (IF 3 * g + 3 > n THEN PadChar ELSE b3 % 64)]

DecodeOk(bytes) == [ok |-> TRUE, bytes |-> bytes, error |-> ""]

DecodeErr(e) == [ok |-> FALSE, bytes |-> <<>>, error |-> e]

\* number of '=' that end the text (at most two are padding)
PadCount(text) ==
    LET n == Len(text)
    IN  IF n >= 1 /\ text[n] = PadChar
        THEN (IF n >= 2 /\ text[n - 1] = PadChar THEN 2 ELSE 1)
        ELSE 0

\* decode: STANDARD requires canonical padding and zero trailing bits; the
\* error names the DecodeError variant
B64Decode(text) ==
    LET n == Len(text)
        p == PadCount(text)
    IN  IF n = 0 THEN DecodeOk(<<>>)
        ELSE IF \E i \in 1..(n - p) : text[i] \notin 0..63 THEN DecodeErr("InvalidByte")
        ELSE IF n % 4 = 1 THEN DecodeErr("InvalidLength")
        ELSE IF n % 4 # 0 THEN DecodeErr("InvalidPadding")
        ELSE IF p = 2 /\ text[n - 2] % 16 # 0 THEN DecodeErr("InvalidLastSymbol")
        ELSE IF p = 1 /\ text[n - 1] % 4 # 0 THEN DecodeErr("InvalidLastSymbol")
        ELSE DecodeOk([i \in 1..(3 * (n \div 4) - p) |->
                LET g == (i - 1) \div 3
                    r == (i - 1) % 3
                    q1 == text[4 * g + 1]
                    q2 == text[4 * g + 2]
                    q3 == text[4 * g + 3]
                    q4 == text[4 * g + 4]
                IN  IF r = 0 THEN q1 * 4 + q2 \div 16
                    ELSE IF r = 1 THEN (q2 % 16) * 16 + q3 \div 4
                    ELSE (q3 % 4) * 64 + q4])

\* Base64String::from(bytes).to_string(): the text form of a ciphertext output
Base64String_to_string(raw) == B64Encode(raw)

----------------------------------------------------------------------------
(* Result<T, Error>, with the steps the call went through before returning *)

NoMsg == [fmt |-> "", cause |-> "", got |-> 0]

Msg(fmt, cause, got) == [fmt |-> fmt, cause |-> cause, got |-> got]

Ok(v, steps) == [tag |-> "Ok", val |-> v, err |-> "", msg |-> NoMsg, steps |-> steps]

Err(kind, msg, steps) == [tag |-> "Err", val |-> <<>>, err |-> kind, msg |-> msg, steps |-> steps]

\* the call did not return: the thread unwinds out of the operation
Panic(steps) == [tag |-> "Panic", val |-> <<>>, err |-> "", msg |-> NoMsg, steps |-> steps]

----------------------------------------------------------------------------
(* aes_gcm::Aes256Gcm, the external AEAD primitive, by its contract.        *)
(* The ciphertext is the message masked by a stream that depends on key,    *)
(* nonce and position, followed by the authentication tag.  The tag is the  *)
(* ideal MAC: an injective function of (key, nonce, aad, ciphertext), so a  *)
(* tag verifies only for the very inputs it was computed from.             *)

KeyStream(key, nonce, i) ==
    (key[((i - 1) % Len(key)) + 1] + nonce[((i - 1) % Len(nonce)) + 1] + i) % ByteMod

Mask(key, nonce, msg) ==
    [i \in 1..Len(msg) |-> (msg[i] + KeyStream(key, nonce, i)) % ByteMod]

Unmask(key, nonce, ct) ==
    [i \in 1..Len(ct) |-> (ct[i] + ByteMod - KeyStream(key, nonce, i)) % ByteMod]

Tag(key, nonce, aad, ct) == key \o nonce \o <<Len(aad)>> \o aad \o ct

\* cipher.encrypt(nonce, Payload { msg, aad }): ciphertext with the tag appended.
\* It errs only for a message beyond GCM's length limit (about 64 GiB), which
\* no input here reaches, so the EncryptionFailed branch of encrypt is not taken.
AeadEncrypt(key, nonce, msg, aad) ==
    LET ct == Mask(key, nonce, msg)
    IN  ct \o Tag(key, nonce, aad, ct)

\* cipher.decrypt(nonce, Payload { msg, aad }): the plaintext, or aead::Error
AeadDecrypt(key, nonce, body, aad) ==
    LET fixed == Len(key) + Len(nonce) + 1 + Len(aad)
        n == (Len(body) - fixed) \div 2
    IN  IF Len(body) < fixed \/ (Len(body) - fixed) % 2 # 0
        THEN [ok |-> FALSE, bytes |-> <<>>]
        ELSE LET ct == SubSeq(body, 1, n)
                 tag == SubSeq(body, n + 1, Len(body))
             IN  IF tag = Tag(key, nonce, aad, ct)
                 THEN [ok |-> TRUE, bytes |-> Unmask(key, nonce, ct)]
                 ELSE [ok |-> FALSE, bytes |-> <<>>]

----------------------------------------------------------------------------
(* impl SymmetricCryptographicSystem for AesGcmSystem *)

\* (mutant) the nonce is a constant instead of a draw from OsRng
DrawNonce_constant(seed) == Zeros(NONCE_SIZE)

\* vec![0u8; NONCE_SIZE] filled by OsRng.try_fill_bytes
DrawNonce(seed) == RngFill(seed, NONCE_SIZE)

\* (mutant) the nonce is appended instead of prepended
Frame_nonceLast(nonce, ciphertext) == ciphertext \o nonce

\* result = nonce || ciphertext
Frame(nonce, ciphertext) == nonce \o ciphertext

\* (mutant) the split keeps one byte too many for the nonce
SplitAt_offByOne(data, mid) ==
    <<SubSeq(data, 1, mid), SubSeq(data, mid + 2, Len(data))>>

\* slice.split_at(mid)
SplitAt(data, mid) == <<SubSeq(data, 1, mid), SubSeq(data, mid + 1, Len(data))>>

\* (mutant) an AEAD failure is reported under the catch-all kind
AeadFailure_asOperation(steps) == Err("Operation", Msg("{}", "aead::Error", 0), steps)

\* .map_err(|e| Error::DecryptionFailed(e.to_string())) on cipher.decrypt
AeadFailure(steps) == Err("DecryptionFailed", Msg("{}", "aead::Error", 0), steps)

generate_key(rngOk, seed) ==
    IF ~rngOk
    THEN Err("Operation", Msg("{}", "rand_core::OsError", 0), <<"OsRng">>)
    ELSE Ok(RngFill(seed, KEY_SIZE), <<"OsRng">>)

encrypt(key, plaintext, additional_data, rngOk, seed) ==
    IF Len(key) # KEY_SIZE
    THEN Panic(<<"Key::from_slice">>)
    ELSE IF ~rngOk
    THEN Err("Operation", Msg("{}", "rand_core::OsError", 0),
             <<"Key::from_slice", "Aes256Gcm::new", "OsRng">>)
    ELSE LET nonce_bytes == DrawNonce(seed)
             aad == UnwrapOrDefault(additional_data)
             ciphertext == AeadEncrypt(key, nonce_bytes, plaintext, aad)
             result == Frame(nonce_bytes, ciphertext)
         IN  Ok(result, <<"Key::from_slice", "Aes256Gcm::new", "OsRng", "aead::encrypt">>)

decrypt(key, ciphertext_b64, additional_data) ==
    IF Len(key) # KEY_SIZE
    THEN Panic(<<"Key::from_slice">>)
    ELSE LET decoded == B64Decode(ciphertext_b64)
             decoded_data == decoded.bytes
         IN  IF ~decoded.ok
             THEN Err("DecryptionFailed",
                      Msg("Base64 decoding failed: {}", decoded.error, 0),
                      <<"Key::from_slice", "Aes256Gcm::new", "base64::decode">>)
             ELSE IF Len(decoded_data) < NONCE_SIZE
             THEN Err("DecryptionFailed",
                      Msg("Ciphertext is too short to contain a nonce", "", 0),
                      <<"Key::from_slice", "Aes256Gcm::new", "base64::decode">>)
             ELSE LET parts == SplitAt(decoded_data, NONCE_SIZE)
                      nonce_bytes == parts[1]
                      ciphertext == parts[2]
                      aad == UnwrapOrDefault(additional_data)
                      opened == AeadDecrypt(key, nonce_bytes, ciphertext, aad)
                      steps == <<"Key::from_slice", "Aes256Gcm::new", "base64::decode",
                                 "aead::decrypt">>
                  IN  IF opened.ok
                      THEN Ok(opened.bytes, steps)
                      ELSE AeadFailure(steps)

\* (mutant) the key is exported without the padding STANDARD requires
export_key_noPad(key) ==
    LET t == B64Encode(key)
    IN  Ok(SubSeq(t, 1, Len(t) - PadCount(t)), <<"base64::encode">>)

export_key(key) == Ok(B64Encode(key), <<"base64::encode">>)

\* (mutant) only a key that is too short is refused
import_key_minSize(key_data) ==
    LET decoded == B64Decode(key_data)
        key_bytes == decoded.bytes
    IN  IF ~decoded.ok
        THEN Err("KeyImportFailed",
                 Msg("Base64 decoding failed: {}", decoded.error, 0),
                 <<"base64::decode">>)
        ELSE IF Len(key_bytes) < KEY_SIZE
        THEN Err("KeyImportFailed",
                 Msg("Invalid key size: expected {}, got {}", "", Len(key_bytes)),
                 <<"base64::decode">>)
        ELSE Ok(key_bytes, <<"base64::decode", "AesGcmKey">>)

import_key(key_data) ==
    LET decoded == B64Decode(key_data)
        key_bytes == decoded.bytes
    IN  IF ~decoded.ok
        THEN Err("KeyImportFailed",
                 Msg("Base64 decoding failed: {}", decoded.error, 0),
                 <<"base64::decode">>)
        ELSE IF Len(key_bytes) # KEY_SIZE
        THEN Err("KeyImportFailed",
                 Msg("Invalid key size: expected {}, got {}", "", Len(key_bytes)),
                 <<"base64::decode">>)
        ELSE Ok(key_bytes, <<"base64::decode", "AesGcmKey">>)

----------------------------------------------------------------------------
(* What a caller of the adapter holds, and the inputs it can pass *)

PlainBytes == {200}

AadBytes == {7}

Plaintexts == SeqsUpTo(PlainBytes, MaxPlainLen)

AadOpts == {None} \cup {Some(a) : a \in SeqsUpTo(AadBytes, MaxAadLen)}

\* AesGcmKey values that #[derive(Deserialize)] accepts: any byte vector
DeserializedKeys == {Zeros(KEY_SIZE \div 2)}

\* key texts that do not come from export_key of a held key
ForeignKeyTexts ==
    { <<8, 38, BadChar, 1>>,
      <<1, 2, 3>>,
      <<0, 1, PadChar, PadChar>>,
      B64Encode(Zeros(KEY_SIZE)),
      B64Encode(Zeros(KEY_SIZE + 1)) }

\* ciphertext texts that do not come from encrypt
ForeignCipherTexts ==
    { <<39, 40, BadChar, 4>>,
      <<1, 2, 3, 4, 5>>,
      B64Encode(Zeros(NONCE_SIZE - 1)),
      B64Encode(Zeros(NONCE_SIZE)) }

NoCall ==
    [op |-> "none", key |-> <<>>, text |-> <<>>, pt |-> <<>>, aad |-> None,
     src |-> "", pos |-> 0, res |-> Ok(<<>>, <<>>)]

NoBlob ==
    [valid |-> FALSE, key |-> <<>>, pt |-> <<>>, aad |-> None, nonce |-> <<>>,
     raw |-> <<>>, text |-> <<>>]

Call(op, key, text, pt, aad, src, pos, res) ==
    [op |-> op, key |-> key, text |-> text, pt |-> pt, aad |-> aad,
     src |-> src, pos |-> pos, res |-> res]

\* the calls are synchronous: the caller issues a call once it has taken the
\* result of the previous one
Idle == last.op = "none"

CanHold(k) == k \in keys \/ Cardinality(keys) < MaxKeys

\* the ciphertext texts the caller can hand to decrypt: the blob it holds,
\* that blob with one byte flipped, and foreign texts
DecryptInputs ==
    (IF blob.valid
     THEN {[text |-> blob.text, src |-> "blob", pos |-> 0]}
          \cup {[text |-> Base64String_to_string(TamperAt(blob.raw, p)),
                 src |-> "tampered", pos |-> p] : p \in 1..Len(blob.raw)}
     ELSE {})
    \cup {[text |-> t, src |-> "foreign", pos |-> 0] : t \in ForeignCipherTexts}

ImportInputs ==
    {[text |-> export_key(k).val, src |-> "exported"] : k \in keys}
    \cup {[text |-> t, src |-> "foreign"] : t \in ForeignKeyTexts}

SymInit ==
    /\ keys = {}
    /\ blob = NoBlob
    /\ last = NoCall

AsymIdle == UNCHANGED asymVars

GenerateKey ==
    /\ Idle
    /\ \E rngOk \in BOOLEAN, seed \in RngSeeds :
        LET res == generate_key(rngOk, seed)
        IN  /\ res.tag = "Ok" => CanHold(res.val)
            /\ keys' = IF res.tag = "Ok" THEN keys \cup {res.val} ELSE keys
            /\ last' = Call("generate_key", <<>>, <<>>, <<>>, None, "", 0, res)
            /\ UNCHANGED blob
            /\ AsymIdle

DeserializeKey ==
    /\ Idle
    /\ \E k \in DeserializedKeys :
        /\ CanHold(k)
        /\ keys' = keys \cup {k}
        /\ last' = Call("deserialize", k, <<>>, <<>>, None, "", 0, Ok(k, <<>>))
        /\ UNCHANGED blob
        /\ AsymIdle

Encrypt ==
    /\ Idle
    /\ \E key \in keys, plaintext \in Plaintexts, aad \in AadOpts,
       rngOk \in BOOLEAN, seed \in RngSeeds :
        LET res == encrypt(key, plaintext, aad, rngOk, seed)
        IN  /\ last' = Call("encrypt", key, <<>>, plaintext, aad, "", 0, res)
            /\ blob' = IF res.tag = "Ok"
                       THEN [valid |-> TRUE, key |-> key, pt |-> plaintext, aad |-> aad,
                             nonce |-> RngFill(seed, NONCE_SIZE), raw |-> res.val,
                             text |-> Base64String_to_string(res.val)]
                       ELSE blob
            /\ UNCHANGED keys
            /\ AsymIdle

Decrypt ==
    /\ Idle
    /\ \E key \in keys, c \in DecryptInputs, aad \in AadOpts :
        /\ last' = Call("decrypt", key, c.text, <<>>, aad, c.src, c.pos,
                        decrypt(key, c.text, aad))
        /\ UNCHANGED <<keys, blob>>
        /\ AsymIdle

ExportKey ==
    /\ Idle
    /\ \E key \in keys :
        /\ last' = Call("export_key", key, <<>>, <<>>, None, "", 0, export_key(key))
        /\ UNCHANGED <<keys, blob>>
        /\ AsymIdle

ImportKey ==
    /\ Idle
    /\ \E c \in ImportInputs :
        LET res == import_key(c.text)
        IN  /\ res.tag = "Ok" => CanHold(res.val)
            /\ keys' = IF res.tag = "Ok" THEN keys \cup {res.val} ELSE keys
            /\ last' = Call("import_key", <<>>, c.text, <<>>, None, c.src, 0, res)
            /\ UNCHANGED blob
            /\ AsymIdle

TakeResult ==
    /\ ~Idle
    /\ last' = NoCall
    /\ UNCHANGED <<keys, blob>>
    /\ AsymIdle

----------------------------------------------------------------------------
(* The three systems lib.rs exports (TraditionalRsa, PostQuantumKyber,      *)
(* HybridRsaKyber).  lib.rs only re-exports them and tests them: they are   *)
(* modelled from the design's description of the unified interface and     *)
(* of the hybrid composite, over a small public-key scheme and a small key  *)
(* encapsulation mechanism, with the bulk encryption done by AesGcmSystem.  *)

Systems == {"traditional", "post-quantum", "hybrid"}

\* the message of test_unified_encrypt_decrypt: b"Hello, unified crypto world!"
HelloMsg ==
    <<72, 101, 108, 108, 111, 44, 32, 117, 110, 105, 102, 105, 101, 100, 32,
      99, 114, 121, 112, 116, 111, 32, 119, 111, 114, 108, 100, 33>>

Messages == Plaintexts \cup {HelloMsg}

RECURSIVE ModExp(_, _, _)
ModExp(base, e, n) ==
    IF e = 0 THEN 1 % n
    ELSE LET half == ModExp(base, e \div 2, n)
             sq == (half * half) % n
         IN  IF e % 2 = 0 THEN sq ELSE (sq * base) % n

\* classical scheme: textbook RSA over single bytes, n = p * q > 255
RsaParams(seed) ==
    IF seed = 0 THEN [n |-> 319, e |-> 3, d |-> 187]
    ELSE [n |-> 323, e |-> 5, d |-> 173]

RsaEncrypt(pub, m) ==
    [j \in 1..(2 * Len(m)) |->
        LET c == ModExp(m[(j + 1) \div 2], pub.e, pub.n)
        IN  IF j % 2 = 1 THEN c \div ByteMod ELSE c % ByteMod]

RsaDecrypt(priv, bytes) ==
    LET num(i) == bytes[2 * i - 1] * ByteMod + bytes[2 * i]
        n == Len(bytes) \div 2
    IN  IF Len(bytes) % 2 # 0 \/ priv.n = 0 THEN [ok |-> FALSE, bytes |-> <<>>]
        ELSE IF \E i \in 1..n : num(i) >= priv.n
                               \/ ModExp(num(i), priv.d, priv.n) >= ByteMod
        THEN [ok |-> FALSE, bytes |-> <<>>]
        ELSE [ok |-> TRUE, bytes |-> [i \in 1..n |-> ModExp(num(i), priv.d, priv.n)]]

\* post-quantum scheme, by the contract of a key encapsulation mechanism:
\* encapsulation under the public key and decapsulation under the private
\* key yield the same shared secret
KemModulus == 257

KemBase == 3

KemSecret(seed) == 5 + 2 * seed

KemPublic(x) == ModExp(KemBase, x, KemModulus)

KemEncapsulate(y, r) ==
    LET c == ModExp(KemBase, r, KemModulus)
    IN  [ct |-> <<c \div ByteMod, c % ByteMod>>, ss |-> ModExp(y, r, KemModulus)]

KemDecapsulate(x, ct) ==
    IF Len(ct) # 2 \/ x = 0 THEN [ok |-> FALSE, ss |-> 0]
    ELSE [ok |-> TRUE, ss |-> ModExp(ct[1] * ByteMod + ct[2], x, KemModulus)]

\* the symmetric key derived from a shared secret
Kdf(ss) == [i \in 1..KEY_SIZE |-> (ss * 7 + i * 13) % ByteMod]

\* the fixed, order-fixed combination of the two secret contributions
Combine(s, t) == [i \in 1..KEY_SIZE |-> (s[i] * 3 + t[i] + i) % ByteMod]

\* envelope = {component A, component B, AEAD ciphertext}, serialized
SerializeEnvelope(a, b, ct) == <<Len(a)>> \o a \o <<Len(b)>> \o b \o ct

ParseEnvelope(bytes) ==
    IF Len(bytes) < 1 \/ Len(bytes) < 2 + bytes[1]
    THEN [ok |-> FALSE, a |-> <<>>, b |-> <<>>, ct |-> <<>>]
    ELSE LET la == bytes[1]
             lb == bytes[la + 2]
         IN  IF Len(bytes) < 2 + la + lb
             THEN [ok |-> FALSE, a |-> <<>>, b |-> <<>>, ct |-> <<>>]
             ELSE [ok |-> TRUE,
                   a |-> SubSeq(bytes, 2, la + 1),
                   b |-> SubSeq(bytes, la + 3, la + lb + 2),
                   ct |-> SubSeq(bytes, la + lb + 3, Len(bytes))]

NoKey == [sys |-> "", n |-> 0, x |-> 0, y |-> 0]

PublicKey(sys, rsa, x) ==
    [sys |-> sys,
     n |-> IF sys = "post-quantum" THEN 0 ELSE rsa.n,
     x |-> IF sys = "post-quantum" THEN 0 ELSE rsa.e,
     y |-> IF sys = "traditional" THEN 0 ELSE KemPublic(x)]

PrivateKey(sys, rsa, x) ==
    [sys |-> sys,
     n |-> IF sys = "post-quantum" THEN 0 ELSE rsa.n,
     x |-> IF sys = "post-quantum" THEN 0 ELSE rsa.d,
     y |-> IF sys = "traditional" THEN 0 ELSE x]

RsaPub(k) == [n |-> k.n, e |-> k.x]

RsaPriv(k) == [n |-> k.n, d |-> k.x]

AsymOk(v, k) == [tag |-> "Ok", val |-> v, err |-> "", k |-> k]

AsymErr(kind) == [tag |-> "Err", val |-> <<>>, err |-> kind, k |-> <<>>]

\* generate_keypair(config): fails with GenerationFailed when the randomness
\* source errs; the hybrid system generates both component keypairs
generate_keypair(sys, rngOk, seed) ==
    IF ~rngOk THEN AsymErr("GenerationFailed")
    ELSE AsymOk(<<PublicKey(sys, RsaParams(seed), KemSecret(seed)),
                  PrivateKey(sys, RsaParams(seed), KemSecret(seed))>>, <<>>)

\* encrypt(public_key, plaintext, None) -> ciphertext output (raw bytes)
asym_encrypt(sys, pub, plaintext, rngOk, seed) ==
    IF ~rngOk THEN AsymErr("EncryptionFailed")
    ELSE IF sys = "traditional" THEN
        AsymOk(SerializeEnvelope(RsaEncrypt(RsaPub(pub), plaintext), <<>>, <<>>), <<>>)
    ELSE
        LET s == RngFill(seed, KEY_SIZE)
            a == IF sys = "hybrid" THEN RsaEncrypt(RsaPub(pub), s) ELSE <<>>
            kem == KemEncapsulate(pub.y, 2 + seed)
            k == IF sys = "hybrid" THEN Combine(s, Kdf(kem.ss)) ELSE Kdf(kem.ss)
            sealed == encrypt(k, plaintext, None, rngOk, seed)
        IN  IF sealed.tag # "Ok" THEN AsymErr("EncryptionFailed")
            ELSE AsymOk(SerializeEnvelope(a, kem.ct, sealed.val), k)

\* decrypt(private_key, ciphertext_text, None): every failure of a sub-step
\* surfaces as the one kind DecryptionFailed
asym_decrypt(sys, priv, text) ==
    LET decoded == B64Decode(text)
        env == ParseEnvelope(decoded.bytes)
    IN  IF ~decoded.ok \/ ~env.ok THEN AsymErr("DecryptionFailed")
        ELSE IF sys = "traditional" THEN
            LET m == RsaDecrypt(RsaPriv(priv), env.a)
            IN  IF m.ok THEN AsymOk(m.bytes, <<>>) ELSE AsymErr("DecryptionFailed")
        ELSE
            LET s == IF sys = "hybrid" THEN RsaDecrypt(RsaPriv(priv), env.a)
                     ELSE [ok |-> TRUE, bytes |-> <<>>]
                kem == KemDecapsulate(priv.y, env.b)
            IN  IF ~s.ok \/ ~kem.ok \/ (sys = "hybrid" /\ Len(s.bytes) # KEY_SIZE)
                THEN AsymErr("DecryptionFailed")
                ELSE LET k == IF sys = "hybrid" THEN Combine(s.bytes, Kdf(kem.ss))
                              ELSE Kdf(kem.ss)
                         opened == decrypt(k, Base64String_to_string(env.ct), None)
                     IN  IF opened.tag = "Ok" THEN AsymOk(opened.val, k)
                         ELSE AsymErr("DecryptionFailed")

NoEnvelope ==
    [valid |-> FALSE, sys |-> "", pub |-> NoKey, msg |-> <<>>, text |-> <<>>, k |-> <<>>]

NoAsymCall ==
    [op |-> "none", sys |-> "", key |-> NoKey, text |-> <<>>, src |-> "",
     rngOk |-> TRUE, res |-> AsymOk(<<>>, <<>>)]

AsymCall(op, sys, key, text, src, rngOk, res) ==
    [op |-> op, sys |-> sys, key |-> key, text |-> text, src |-> src,
     rngOk |-> rngOk, res |-> res]

AsymIdleCaller == alast.op = "none"

SymIdle == UNCHANGED symVars

\* envelope texts that do not come from encrypt
ForeignEnvelopeTexts ==
    { <<39, 40, BadChar, 4>>,
      B64Encode(<<5, 1>>),
      B64Encode(Zeros(NONCE_SIZE)) }

\* a caller keeps one keypair per system; a new one replaces it
GenerateKeypair ==
    /\ AsymIdleCaller
    /\ \E sys \in Systems, rngOk \in BOOLEAN, seed \in RngSeeds :
        LET res == generate_keypair(sys, rngOk, seed)
        IN  /\ alast' = AsymCall("generate_keypair", sys, NoKey, <<>>, "", rngOk, res)
            /\ keypairs' = IF res.tag = "Ok"
                           THEN {kp \in keypairs : kp.sys # sys}
                                \cup {[sys |-> sys, pub |-> res.val[1], priv |-> res.val[2]]}
                           ELSE keypairs
            /\ UNCHANGED envelope
            /\ SymIdle

AsymEncrypt ==
    /\ AsymIdleCaller
    /\ \E kp \in keypairs, m \in Messages, rngOk \in BOOLEAN, seed \in RngSeeds :
        LET res == asym_encrypt(kp.sys, kp.pub, m, rngOk, seed)
        IN  /\ alast' = AsymCall("encrypt", kp.sys, kp.pub, <<>>, "", rngOk,
                                 [res EXCEPT !.k = <<>>])
            /\ envelope' = IF res.tag = "Ok"
                           THEN [valid |-> TRUE, sys |-> kp.sys, pub |-> kp.pub, msg |-> m,
                                 text |-> Base64String_to_string(res.val), k |-> res.k]
                           ELSE envelope
            /\ UNCHANGED keypairs
            /\ SymIdle

AsymDecrypt ==
    /\ AsymIdleCaller
    /\ \E kp \in keypairs,
          c \in (IF envelope.valid THEN {[text |-> envelope.text, src |-> "envelope"]}
                 ELSE {})
                \cup {[text |-> t, src |-> "foreign"] : t \in ForeignEnvelopeTexts} :
        /\ alast' = AsymCall("decrypt", kp.sys, kp.priv, c.text, c.src, TRUE,
                             asym_decrypt(kp.sys, kp.priv, c.text))
        /\ UNCHANGED <<keypairs, envelope>>
        /\ SymIdle

AsymTakeResult ==
    /\ ~AsymIdleCaller
    /\ alast' = NoAsymCall
    /\ UNCHANGED <<keypairs, envelope>>
    /\ SymIdle

AsymNext ==
    \/ GenerateKeypair
    \/ AsymEncrypt
    \/ AsymDecrypt
    \/ AsymTakeResult

AsymConst ==
    /\ keypairs = {}
    /\ envelope = NoEnvelope
    /\ alast = NoAsymCall

Init == SymInit /\ AsymConst

Next ==
    \/ GenerateKey
    \/ DeserializeKey
    \/ Encrypt
    \/ Decrypt
    \/ ExportKey
    \/ ImportKey
    \/ TakeResult

Spec == Init /\ [][Next]_vars

SpecAsym == Init /\ [][AsymNext]_vars

----------------------------------------------------------------------------
(* Properties of the symmetric adapter, checked under Spec *)

Range(f) == {f[i] : i \in DOMAIN f}

\* the first NONCE_SIZE bytes a blob text decodes to
EmbeddedNonce(text) == SubSeq(B64Decode(text).bytes, 1, NONCE_SIZE)

\* C1: decrypting the blob that encrypt returned, under the key and the
\* associated data it was encrypted with, returns Ok with exactly the
\* plaintext (the empty plaintext and absent associated data included).
C1_RoundTrip ==
    (last.op = "decrypt" /\ last.src = "blob"
        /\ last.key = blob.key /\ last.aad = blob.aad)
    => (last.res.tag = "Ok" /\ last.res.val = blob.pt)

C1_Witness ==
    /\ last.op = "decrypt" /\ last.src = "blob"
    /\ last.key = blob.key /\ last.aad = blob.aad
    /\ blob.aad.some /\ blob.aad.bytes # <<>>
    /\ blob.pt = <<>>
    /\ last.res.tag = "Ok"

\* the bytes of an associated data argument (absent data has no bytes)
AadBytesOf(o) == IF o = None THEN <<>> ELSE o.bytes

\* C2: under the key of the blob, decrypt never returns Ok for the blob with
\* one byte changed (in the nonce, the ciphertext or the tag), whatever the
\* associated data, nor for the blob itself with associated data whose bytes
\* differ; it returns an error and no plaintext.
C2_TamperRejected ==
    (last.op = "decrypt" /\ blob.valid /\ last.key = blob.key
        /\ \/ last.src = "tampered"
           \/ /\ last.src = "blob"
              /\ AadBytesOf(last.aad) # AadBytesOf(blob.aad))
    => (last.res.tag = "Err" /\ last.res.val = <<>>)

C2_Witness ==
    /\ last.op = "decrypt" /\ blob.valid /\ last.key = blob.key
    /\ last.src = "tampered" /\ last.pos = Len(blob.raw)
    /\ last.aad = blob.aad
    /\ blob.pt # <<>>
    /\ last.res.tag = "Err"

C4_ExportImport ==
    (last.op = "import_key" /\ last.src = "exported")
    => \A k \in keys :
           (Len(k) = KEY_SIZE /\ export_key(k).tag = "Ok"
               /\ last.text = export_key(k).val)
           => /\ last.res.tag = "Ok"
              /\ last.res.val = k
              /\ \A pt \in Plaintexts :
                     LET c == encrypt(last.res.val, pt, None, TRUE, 0)
                         d == decrypt(k, Base64String_to_string(c.val), None)
                     IN  c.tag = "Ok" /\ d.tag = "Ok" /\ d.val = pt

C4_Witness ==
    /\ last.op = "import_key" /\ last.src = "exported"
    /\ last.res.tag = "Ok"
    /\ last.res.val = RngFill(3, KEY_SIZE)
    /\ last.res.val \in keys

\* C5: import_key fails with KeyImportFailed on text that is not valid
\* standard base64 and on text that decodes to other than 32 bytes, succeeds
\* only on text that decodes to exactly 32 bytes, and every key returned by
\* import_key or generate_key holds exactly 32 bytes.
C5_ImportChecks ==
    /\ last.op = "import_key" =>
          LET decoded == B64Decode(last.text)
              good == decoded.ok /\ Len(decoded.bytes) = KEY_SIZE
          IN  /\ last.res.tag = (IF good THEN "Ok" ELSE "Err")
              /\ ~good => last.res.err = "KeyImportFailed"
              /\ good => last.res.val = decoded.bytes
    /\ (last.op \in {"import_key", "generate_key"} /\ last.res.tag = "Ok")
          => Len(last.res.val) = KEY_SIZE
    /\ \A k \in keys \ DeserializedKeys : Len(k) = KEY_SIZE

C5_Witness ==
    /\ last.op = "import_key"
    /\ B64Decode(last.text).ok
    /\ Len(B64Decode(last.text).bytes) = KEY_SIZE + 1
    /\ last.res.err = "KeyImportFailed"

\* C6: every public operation returns a Result (Ok or Err) for every key a
\* caller can obtain, a deserialized key of another length included; none
\* panics.
C6_NoPanic == last.res.tag \in {"Ok", "Err"}

\* C7 (as claimed): two successful encrypt calls under one key never embed
\* the same nonce in their blobs.
C7_NeverReused ==
    [][(blob.valid /\ last'.op = "encrypt" /\ last'.res.tag = "Ok"
            /\ blob'.key = blob.key)
        => EmbeddedNonce(blob'.text) # EmbeddedNonce(blob.text)]_vars

\* C7 (amended): every successful encrypt embeds, as the first 12 bytes of
\* its blob, the 12 bytes it drew from the random generator in that call.
C7_FreshNonceEmbedded ==
    blob.valid =>
        /\ B64Decode(blob.text).ok
        /\ Len(blob.nonce) = NONCE_SIZE
        /\ EmbeddedNonce(blob.text) = blob.nonce

C7_Witness ==
    /\ last.op = "encrypt" /\ last.res.tag = "Ok"
    /\ blob.valid
    /\ blob.nonce = RngFill(3, NONCE_SIZE)
    /\ blob.pt # <<>>

\* the error a caller gets for a blob decrypted under another key
WrongKeyError ==
    decrypt(RngFill(0, KEY_SIZE),
            Base64String_to_string(encrypt(RngFill(3, KEY_SIZE), <<>>, None, TRUE, 0).val),
            None)

\* C8: every error decrypt returns (text that is not base64, a decoded blob
\* shorter than the nonce, a failed authentication, a wrong key) has the
\* kind DecryptionFailed and the same content as the wrong-key error.
C8_SameError ==
    (last.op = "decrypt" /\ last.res.tag = "Err")
    => /\ last.res.err = "DecryptionFailed"
       /\ last.res.err = WrongKeyError.err
       /\ last.res.msg = WrongKeyError.msg

\* C9: when the ciphertext text is not valid base64 or decodes to fewer than
\* 12 bytes, decrypt returns its error with no cipher built from the key and
\* no AEAD decryption before it; when the key text is malformed, import_key
\* returns its error without constructing a key.
C9_FailBeforeCrypto ==
    /\ (last.op = "decrypt" /\ Len(last.key) = KEY_SIZE
            /\ \/ ~B64Decode(last.text).ok
               \/ Len(B64Decode(last.text).bytes) < NONCE_SIZE)
        => /\ last.res.tag = "Err"
           /\ "Aes256Gcm::new" \notin Range(last.res.steps)
           /\ "aead::decrypt" \notin Range(last.res.steps)
    /\ (last.op = "import_key" /\ ~B64Decode(last.text).ok)
        => /\ last.res.tag = "Err"
           /\ "AesGcmKey" \notin Range(last.res.steps)

----------------------------------------------------------------------------
(* Property of the unified asymmetric interface, checked under SpecAsym *)

====
